---------------------------- MODULE Spec2Model ----------------------------
(***************************************************************************)
(* A model of flytrap's two nibble-indexed tries:                          *)
(*   - the address-set aggregator of src/lib/libft/ft_ip4agg.c, and        *)
(*   - the ARP tracker and packet analyzer of src/sbin/flytrap/arp.c.      *)
(* Integers keep their C widths (uint32_t addresses, LP64 unsigned long).  *)
(***************************************************************************)
EXTENDS Integers, Sequences, FiniteSets, TLC

VARIABLES
    ip4a,        \* [root: the aggregator's root node, ret: what the last call returned]
    agg_op,      \* the last aggregator call: [kind, first, last]
    agg_ranges,  \* history: the ranges whose insert returned 0
    agg_failed,  \* history: some insert has returned -1
    agg_calls,   \* history: number of aggregator calls so far
    arp,         \* [tree: the nodes from arp_root, ret and sent: what the last
                 \*  call returned and the replies it handed to ethernet_reply]
    dst_set,     \* the scope set: [null: no set is configured, addrs: its addresses]
    now,         \* the capture clock, <<tv_sec, tv_usec>>
    arp_op,      \* the last tracker call: [kind, ...]
    registered,  \* history: the addresses passed to arp_register so far
    script,      \* history: per address, how far the claim scenario has got
    window,      \* history: per address, the requests of its current window
    arp_calls    \* history: number of tracker calls so far

agg_vars == <<ip4a, agg_op, agg_ranges, agg_failed, agg_calls>>

arp_vars == <<arp, dst_set, now, arp_op, registered, script, window,
              arp_calls>>

vars == <<ip4a, agg_op, agg_ranges, agg_failed, agg_calls,
          arp, dst_set, now, arp_op, registered, script, window, arp_calls>>

-----------------------------------------------------------------------------
(* Machine arithmetic.  TLC's integers are 32 bits wide and signed, so a   *)
(* C unsigned integer is a big-endian sequence of 16-bit limbs: a uint32_t *)
(* is <<hi, lo>>, a 64-bit unsigned long is four limbs.  Addition and      *)
(* subtraction wrap at the width of their operands, as in C.               *)

Limb == 256 * 256

Pow2(n) == 2 ^ n

\* -1, 0 or 1 as a < b, a = b or a > b (operands of the same width)
RECURSIVE WCmp(_, _)
WCmp(a, b) ==
    IF a = <<>> THEN 0
    ELSE IF Head(a) < Head(b) THEN -1
    ELSE IF Head(a) > Head(b) THEN 1
    ELSE WCmp(Tail(a), Tail(b))

WLt(a, b) == WCmp(a, b) < 0

WLe(a, b) == WCmp(a, b) <= 0

RECURSIVE WAddC(_, _, _)
WAddC(a, b, c) ==
    IF a = <<>> THEN <<>>
    ELSE LET n == Len(a)
             s == a[n] + b[n] + c
         IN  Append(WAddC(SubSeq(a, 1, n - 1), SubSeq(b, 1, n - 1), s \div Limb),
                    s % Limb)

\* a + b, wrapping at the operands' width
WAdd(a, b) == WAddC(a, b, 0)

RECURSIVE WSubB(_, _, _)
WSubB(a, b, c) ==
    IF a = <<>> THEN <<>>
    ELSE LET n == Len(a)
             d == a[n] - b[n] - c
         IN  Append(WSubB(SubSeq(a, 1, n - 1), SubSeq(b, 1, n - 1),
                          IF d < 0 THEN 1 ELSE 0),
                    (d + Limb) % Limb)

\* a - b, wrapping at the operands' width
WSub(a, b) == WSubB(a, b, 0)

\* integer promotion uint32_t -> unsigned long, and the cast back
Ext64(x) == <<0, 0>> \o x

Trunc32(x) == SubSeq(x, Len(x) - 1, Len(x))

Zero32 == <<0, 0>>

Zero64 == <<0, 0, 0, 0>>

One64 == <<0, 0, 0, 1>>

\* 0xffffffff
Ones32 == <<Limb - 1, Limb - 1>>

\* x >> n for a 32-bit x held in a 64-bit unsigned long, 0 <= n <= 32
Shr32(x, n) ==
    IF n >= 32 THEN Zero32
    ELSE IF n >= 16 THEN <<0, x[1] \div Pow2(n - 16)>>
    ELSE <<x[1] \div Pow2(n),
           (x[1] % Pow2(n)) * Pow2(16 - n) + x[2] \div Pow2(n)>>

\* (uint32_t)(i << n) for a small unsigned i, 0 <= n < 32
Shl32(i, n) ==
    IF n >= 16 THEN <<(i * Pow2(n - 16)) % Limb, 0>>
    ELSE <<((i * Pow2(n)) \div Limb) % Limb, (i * Pow2(n)) % Limb>>

\* a | b of two bits, of two nibbles (tabulated), of two limbs
BitOr1(a, b) == IF a = 1 \/ b = 1 THEN 1 ELSE 0

BitOr4 ==
    [a \in 0 .. 15 |-> [b \in 0 .. 15 |->
        BitOr1(a % 2, b % 2)
        + 2 * BitOr1((a \div 2) % 2, (b \div 2) % 2)
        + 4 * BitOr1((a \div 4) % 2, (b \div 4) % 2)
        + 8 * BitOr1(a \div 8, b \div 8)]]

BitOr16(a, b) ==
    BitOr4[a % 16][b % 16]
    + 16 * BitOr4[(a \div 16) % 16][(b \div 16) % 16]
    + 256 * BitOr4[(a \div 256) % 16][(b \div 256) % 16]
    + 4096 * BitOr4[a \div 4096][b \div 4096]

\* a | b of two uint32_t
BitOr32(a, b) == <<BitOr16(a[1], b[1]), BitOr16(a[2], b[2])>>

\* x % m for a 32-bit x and a power of two m <= 65536
WMod(x, m) == x[2] % m

\* dotted quad -> host-order uint32_t
IP(a, b, c, d) == <<a * 256 + b, c * 256 + d>>

-----------------------------------------------------------------------------
(* ft_ip4agg.c: tunables *)

ip4a_bits == 4

ip4a_minplen == 8

ip4a_maxplen == 32

\* 1U << ip4a_bits
ip4a_fanout == Pow2(ip4a_bits)

(***************************************************************************)
(* struct ip4a_node is a record [addr, plen, leaf, coverage, sub]; sub is  *)
(* a function from the indices of the children that exist to their nodes,  *)
(* so that sub[i] == NULL is i \notin DOMAIN sub.                          *)
(***************************************************************************)

\* calloc(1, sizeof(ip4a_node)) in ip4a_new, then leaf = 1
ip4a_new ==
    [addr |-> Zero32, plen |-> 0, leaf |-> TRUE, coverage |-> Zero64,
     sub |-> <<>>]

\* ip4a_delete(n): free every child of n, recursively
ip4a_delete(n) == [n EXCEPT !.sub = <<>>]

\* mask = 0xffffffffLU >> n->plen
ip4a_mask(n) == Shr32(Ones32, n.plen)

\* mask + 1LU, an unsigned long
ip4a_size(n) == WAdd(Ext64(ip4a_mask(n)), One64)

\* a collapse that leaves the coverage as it was
ip4a_collapse_keep_coverage(n) == [ip4a_delete(n) EXCEPT !.leaf = TRUE]

\* ip4a_delete(n); n->leaf = 1; n->coverage = mask + 1LU
ip4a_collapse(n) ==
    [ip4a_delete(n) EXCEPT !.leaf = TRUE, !.coverage = ip4a_size(n)]

\* the statement n->coverage += sn->coverage left out
ip4a_account_none(n, sn) == n

\* n->coverage += sn->coverage
ip4a_account(n, sn) == [n EXCEPT !.coverage = WAdd(@, sn.coverage)]

(***************************************************************************)
(* ip4a_insert(n, first, last).  mem is the number of calloc() calls that  *)
(* still succeed (-1: no limit).  The result is the node as the call       *)
(* leaves it, the return value and what is left of mem.                    *)
(***************************************************************************)
RECURSIVE ip4a_insert(_, _, _, _)
RECURSIVE ip4a_insert_loop(_, _, _, _, _, _)

\* the for loop of ip4a_insert, from child i to child lsub
ip4a_insert_loop(n, i, lsub, first, last, mem) ==
    IF i > lsub THEN [n |-> n, ret |-> 0, mem |-> mem]
    ELSE
      LET splen == n.plen + ip4a_bits
          fresh == i \notin DOMAIN n.sub
      IN
      IF fresh /\ mem = 0
      THEN [n |-> n, ret |-> -1, mem |-> mem]
      ELSE
        LET sn   == IF fresh
                    THEN [addr     |-> BitOr32(n.addr, Shl32(i, 32 - splen)),
                          plen     |-> splen,
                          leaf     |-> TRUE,
                          coverage |-> Zero64,
                          sub      |-> <<>>]
                    ELSE n.sub[i]
            n1   == IF fresh
                    THEN [n EXCEPT !.sub = (i :> sn) @@ @, !.leaf = FALSE]
                    ELSE n
            mem1 == IF fresh /\ mem > 0 THEN mem - 1 ELSE mem
            r    == ip4a_insert(sn, first, last, mem1)
            n2   == ip4a_account([n1 EXCEPT !.sub[i] = r.n], r.n)
        IN
        IF r.ret # 0 THEN [n |-> n2, ret |-> r.ret, mem |-> r.mem]
        ELSE ip4a_insert_loop(n2, i + 1, lsub, first, last, r.mem)

ip4a_insert(n, first0, last0, mem) ==
    LET mask  == ip4a_mask(n)
        top   == BitOr32(n.addr, mask)
        first == IF WLt(first0, n.addr) THEN n.addr ELSE first0
        last  == IF WLt(top, last0) THEN top ELSE last0
    IN
    IF n.plen >= ip4a_minplen /\
       ((first = n.addr /\ last = top) \/ n.plen + ip4a_bits > ip4a_maxplen)
    THEN [n |-> ip4a_collapse(n), ret |-> 0, mem |-> mem]
    ELSE
      LET splen  == n.plen + ip4a_bits
          fsub   == WMod(Shr32(first, 32 - splen), ip4a_fanout)
          lsub   == WMod(Shr32(last, 32 - splen), ip4a_fanout)
          r      == ip4a_insert_loop(n, fsub, lsub, first, last, mem)
          mincov == Trunc32(ip4a_size(n))
      IN
      IF r.ret # 0 THEN r
      ELSE IF n.plen >= ip4a_minplen /\ mincov # Zero32 /\
              WLe(Ext64(mincov), r.n.coverage)
      THEN [r EXCEPT !.n = ip4a_collapse(r.n)]
      ELSE r

\* a remove that reports success without removing anything
ip4a_remove_ok(n, first, last) == [n |-> n, ret |-> 0]

\* ip4a_remove: a stub that fails
ip4a_remove(n, first, last) == [n |-> n, ret |-> -1]

RECURSIVE ip4a_lookup(_, _)
ip4a_lookup(n, addr) ==
    LET mask == ip4a_mask(n)
    IN
    IF WLe(n.addr, addr) /\ WLe(addr, BitOr32(n.addr, mask))
    THEN IF n.coverage = ip4a_size(n) THEN 1
         ELSE LET sub == WMod(Shr32(addr, 32 - n.plen - ip4a_bits), ip4a_fanout)
              IN  IF sub \in DOMAIN n.sub
                  THEN ip4a_lookup(n.sub[sub], addr)
                  ELSE 0
    ELSE 0

ip4a_count(n) == n.coverage

\* one line of ip4a_fprint: the four octets, then the prefix length unless 32
ip4a_line(n) ==
    LET q == <<WMod(Shr32(n.addr, 24), 256), WMod(Shr32(n.addr, 16), 256),
               WMod(Shr32(n.addr, 8), 256), WMod(n.addr, 256)>>
    IN  IF n.plen < 32 THEN Append(q, n.plen) ELSE q

RECURSIVE ip4a_fprint(_)
RECURSIVE ip4a_fprint_loop(_, _)

ip4a_fprint_loop(n, i) ==
    IF i >= ip4a_fanout THEN <<>>
    ELSE (IF i \in DOMAIN n.sub THEN ip4a_fprint(n.sub[i]) ELSE <<>>)
         \o ip4a_fprint_loop(n, i + 1)

ip4a_fprint(n) ==
    IF n.leaf THEN <<ip4a_line(n)>> ELSE ip4a_fprint_loop(n, 0)

-----------------------------------------------------------------------------
(* arp.c: the tracker.                                                     *)
(* The nodes hanging from arp_root are a heap keyed by path: the root is   *)
(* at <<>> and n->sub[i] of the node at path p is at Append(p, i), NULL    *)
(* when that path is not in the heap.  A pointer to a node is its path.    *)
(* An ip4_addr and an ether_addr are their octets in network order.        *)

\* be32toh(ip4->q)
be32toh(o) == IP(o[1], o[2], o[3], o[4])

\* be16toh of the two octets of a 16-bit field
be16toh(o) == o[1] * 256 + o[2]

\* a NULL pointer, and the failure of ft_assert
NULL == <<-1>>

ABORT == <<-2>>

EtherZero == <<0, 0, 0, 0, 0, 0>>

\* calloc(1, sizeof *sn) in arp_insert, then addr, plen, first and last;
\* ether and nreq share their storage with sub[] and mean something on a
\* /32 node only
arp_new_node(n, sub, splen, when) ==
    LET base == [addr     |-> BitOr32(n.addr, Shl32(sub, 32 - splen)),
                 plen     |-> splen,
                 claimed  |-> FALSE,
                 reserved |-> FALSE,
                 first    |-> when,
                 last     |-> when]
    IN  IF splen = 32
        THEN base @@ [ether |-> EtherZero, nreq |-> 0]
        ELSE base

\* struct arpn arp_root: zero-initialised
arp_root ==
    (<<>> :> [addr |-> Zero32, plen |-> 0, claimed |-> FALSE,
              reserved |-> FALSE, first |-> 0, last |-> 0])

(***************************************************************************)
(* arp_insert(n, addr, when), n the node at path p of heap t.  mem is the  *)
(* number of calloc() calls that still succeed (-1: no limit).  The result *)
(* is the heap, the node returned (or NULL, or ABORT) and what is left of  *)
(* mem.                                                                    *)
(***************************************************************************)
RECURSIVE arp_insert(_, _, _, _, _)
RECURSIVE arp_insert_sub(_, _, _, _, _, _)
arp_insert(t, p, addr, when, mem) ==
    IF t[p].plen = 32
    THEN [t |-> t, rn |-> IF t[p].addr = addr THEN p ELSE ABORT, mem |-> mem]
    ELSE arp_insert_sub(t, p, addr, when, mem,
                        WMod(Shr32(addr, 32 - (t[p].plen + 4)), 16))

\* the rest of arp_insert once sub is known: sn = n->sub[sub], made by
\* calloc if it is NULL, then the recursive call
arp_insert_sub(t, p, addr, when, mem, sub) ==
    IF Append(p, sub) \in DOMAIN t
    THEN arp_insert(t, Append(p, sub), addr, when, mem)
    ELSE IF mem = 0
    THEN [t |-> t, rn |-> NULL, mem |-> mem]
    ELSE arp_insert(
             (Append(p, sub) :> arp_new_node(t[p], sub, t[p].plen + 4, when)) @@ t,
             Append(p, sub), addr, when, IF mem > 0 THEN mem - 1 ELSE mem)

\* a variant that resets nreq only when the address changes
arp_register_node_changed(r, ether) ==
    IF r.rn = NULL THEN [t |-> r.t, ret |-> -1, mem |-> r.mem]
    ELSE IF r.rn = ABORT THEN [t |-> r.t, ret |-> -2, mem |-> r.mem]
    ELSE [t   |-> IF r.t[r.rn].ether # ether
                  THEN [r.t EXCEPT ![r.rn].ether = ether, ![r.rn].nreq = 0]
                  ELSE r.t,
          ret |-> 0,
          mem |-> r.mem]

\* a variant that also gives up the claim on the address
arp_register_node_unclaim(r, ether) ==
    IF r.rn = NULL THEN [t |-> r.t, ret |-> -1, mem |-> r.mem]
    ELSE IF r.rn = ABORT THEN [t |-> r.t, ret |-> -2, mem |-> r.mem]
    ELSE [t   |-> [r.t EXCEPT ![r.rn].ether = ether,
                              ![r.rn].nreq = 0,
                              ![r.rn].claimed = FALSE],
          ret |-> 0,
          mem |-> r.mem]

\* arp_register once arp_insert has returned r: memcmp, memcpy, nreq = 0
arp_register_node(r, ether) ==
    IF r.rn = NULL THEN [t |-> r.t, ret |-> -1, mem |-> r.mem]
    ELSE IF r.rn = ABORT THEN [t |-> r.t, ret |-> -2, mem |-> r.mem]
    ELSE [t   |-> [r.t EXCEPT ![r.rn].ether = IF @ # ether THEN ether ELSE @,
                              ![r.rn].nreq = 0],
          ret |-> 0,
          mem |-> r.mem]

\* arp_register(ip4, ether, when): the heap, the return value, what is left
\* of mem
arp_register(t, ip4, ether, when, mem) ==
    arp_register_node(arp_insert(t, <<>>, be32toh(ip4), when, mem), ether)

\* an = an->sub[i] for each i of idx in turn; NULL as soon as one is NULL
RECURSIVE arp_descend(_, _, _)
arp_descend(t, p, idx) ==
    IF idx = <<>> THEN p
    ELSE IF Append(p, Head(idx)) \notin DOMAIN t THEN NULL
    ELSE arp_descend(t, Append(p, Head(idx)), Tail(idx))

\* a variant that takes the low nibble of each octet first
arp_lookup_path_swapped(ip4) ==
    <<ip4[1] % 16, ip4[1] \div 16, ip4[2] % 16, ip4[2] \div 16,
      ip4[3] % 16, ip4[3] \div 16, ip4[4] % 16, ip4[4] \div 16>>

\* the indices arp_lookup follows: o[0] / 16, o[0] % 16, ..., o[3] % 16
arp_lookup_path(ip4) ==
    <<ip4[1] \div 16, ip4[1] % 16, ip4[2] \div 16, ip4[2] % 16,
      ip4[3] \div 16, ip4[3] % 16, ip4[4] \div 16, ip4[4] % 16>>

\* arp_lookup(ip4, ether): the return value and what *ether is set to
arp_lookup(t, ip4) ==
    LET an == arp_descend(t, <<>>, arp_lookup_path(ip4))
    IN  IF an = NULL THEN [ret |-> -1]
        ELSE [ret |-> 0, ether |-> t[an].ether]

\* arp_reserve once arp_insert has returned r
arp_reserve_node(r) ==
    IF r.rn = NULL THEN [t |-> r.t, ret |-> -1]
    ELSE IF r.rn = ABORT THEN [t |-> r.t, ret |-> -2]
    ELSE [t |-> [r.t EXCEPT ![r.rn].reserved = TRUE], ret |-> 0]

\* arp_reserve(addr)
arp_reserve(t, addr, mem) ==
    arp_reserve_node(arp_insert(t, <<>>, be32toh(addr), 0, mem))

-----------------------------------------------------------------------------
(* arp.c: the packet analyzer *)

\* sizeof(arp_pkt): htype, ptype, hlen, plen, oper, sha, spa, tha, tpa
arp_pkt_size == 28

arp_type_ether == 1

arp_type_ip4 == 2048

arp_oper_who_has == 1

arp_oper_is_at == 2

\* the age at which a pending request no longer counts
arp_stale_ms == 30000

\* a variant that claims one request early
arp_claim_nreq_early == 3 - 1

\* a variant that claims after a shorter time
arp_claim_ms_short == 3000 - 2000

\* how many requests, over how long, before an address is claimed
arp_claim_nreq == 3

arp_claim_ms == 3000

\* fl->p->i->ether, the address of the interface the packet arrived on
IfaceEther == <<2, 0, 0, 0, 0, 254>>

\* a variant that compares with > where the code has >=
u64_diff_gt(a, b, k) == IF a >= b THEN a - b > k ELSE TRUE

\* (uint64_t)(a - b) >= k for timestamps below 2^31: a wrapped difference
\* is at least 2^64 - 2^31
u64_diff_ge(a, b, k) == IF a >= b THEN a - b >= k ELSE TRUE

\* when = tv_sec * 1000 + tv_usec / 1000
arp_when(ts) == ts[1] * 1000 + ts[2] \div 1000

\* arp_reply(fl, iap, an): the packet handed to ethernet_reply
arp_reply(iap) ==
    [htype |-> <<0, arp_type_ether>>,
     ptype |-> <<arp_type_ip4 \div 256, arp_type_ip4 % 256>>,
     hlen  |-> 6,
     plen  |-> 4,
     oper  |-> <<0, arp_oper_is_at>>,
     sha   |-> IfaceEther,
     spa   |-> iap.tpa,
     tha   |-> iap.sha,
     tpa   |-> iap.spa]

\* ip4s_lookup(dst_set, addr) of the scope set
ip4s_lookup(dst, addr) == addr \in dst.addrs

\* a variant that leaves the count of a reserved address as it is
arp_target_reserved_keep(t, an) == [tree |-> t, ret |-> 0, sent |-> <<>>]

\* if (an->reserved): ignore
arp_target_reserved(t, an) ==
    [tree |-> [t EXCEPT ![an].nreq = 0], ret |-> 0, sent |-> <<>>]

\* a variant that answers without refreshing an->last
arp_target_refresh_stale(t, an, ap, when, txok) ==
    [tree |-> [t EXCEPT ![an].nreq = 0],
     ret  |-> IF txok THEN 0 ELSE -1,
     sent |-> <<arp_reply(ap)>>]

\* else if (an->claimed): already ours, refresh
arp_target_refresh(t, an, ap, when, txok) ==
    [tree |-> [t EXCEPT ![an].nreq = 0, ![an].last = when],
     ret  |-> IF txok THEN 0 ELSE -1,
     sent |-> <<arp_reply(ap)>>]

\* new or stale, start over
arp_target_restart(t, an, when) ==
    [tree |-> [t EXCEPT ![an].nreq = 1, ![an].first = when, ![an].last = when],
     ret  |-> 0,
     sent |-> <<>>]

\* claim new address
arp_target_claim(t, an, ap, when, txok) ==
    [tree |-> [t EXCEPT ![an].claimed = TRUE, ![an].nreq = 0, ![an].last = when],
     ret  |-> IF txok THEN 0 ELSE -1,
     sent |-> <<arp_reply(ap)>>]

\* an->nreq++ without an->last = when
arp_target_count_keep_last(t, an, when) ==
    [tree |-> [t EXCEPT ![an].nreq = @ + 1], ret |-> 0, sent |-> <<>>]

\* else: an->nreq++
arp_target_count(t, an, when) ==
    [tree |-> [t EXCEPT ![an].nreq = @ + 1, ![an].last = when],
     ret  |-> 0,
     sent |-> <<>>]

\* the who-has case once the target's node an is known
arp_who_has_target(t, an, ap, when, txok) ==
    IF t[an].reserved THEN arp_target_reserved(t, an)
    ELSE IF t[an].claimed THEN arp_target_refresh(t, an, ap, when, txok)
    ELSE IF t[an].nreq = 0 \/ u64_diff_ge(when, t[an].last, arp_stale_ms)
    THEN arp_target_restart(t, an, when)
    ELSE IF t[an].nreq >= arp_claim_nreq /\
            u64_diff_ge(when, t[an].first, arp_claim_ms)
    THEN arp_target_claim(t, an, ap, when, txok)
    ELSE arp_target_count(t, an, when)

\* the who-has case once arp_insert has returned ins for the target
arp_who_has_node(ins, ap, when, txok) ==
    IF ins.rn = NULL THEN [tree |-> ins.t, ret |-> -1, sent |-> <<>>]
    ELSE IF ins.rn = ABORT THEN [tree |-> ins.t, ret |-> -2, sent |-> <<>>]
    ELSE arp_who_has_target(ins.t, ins.rn, ap, when, txok)

\* the who-has case once arp_register has returned reg for the sender (its
\* return value is not looked at)
arp_who_has_insert(reg, ap, when, txok) ==
    arp_who_has_node(arp_insert(reg.t, <<>>, be32toh(ap.tpa), when, reg.mem),
                     ap, when, txok)

\* case arp_oper_who_has of the second switch
arp_who_has(t, ap, when, dst, mem, txok) ==
    IF ~dst.null /\ ~ip4s_lookup(dst, be32toh(ap.tpa))
    THEN [tree |-> t, ret |-> 0, sent |-> <<>>]
    ELSE arp_who_has_insert(arp_register(t, ap.spa, ap.sha, when, mem),
                            ap, when, txok)

\* the is-at case once arp_register has returned reg for the sender
arp_is_at_tpa(reg, ap, when) ==
    [tree |-> arp_register(reg.t, ap.tpa, ap.tha, when, reg.mem).t,
     ret  |-> 0,
     sent |-> <<>>]

\* case arp_oper_is_at of the second switch
arp_is_at(t, ap, when, mem) ==
    arp_is_at_tpa(arp_register(t, ap.spa, ap.sha, when, mem), ap, when)

(***************************************************************************)
(* packet_analyze_arp(fl, data, len): data holds the fields of an arp_pkt, *)
(* ts is the capture time, dst is dst_set, txok says whether               *)
(* ethernet_reply                                                          *)
(* will succeed.  The result is the heap, the return value and the replies *)
(* handed to ethernet_reply.                                               *)
(***************************************************************************)
packet_analyze_arp(t, ap, ts, dst, mem, txok) ==
    IF ap.len < arp_pkt_size
    THEN [tree |-> t, ret |-> -1, sent |-> <<>>]
    ELSE IF be16toh(ap.htype) # arp_type_ether \/ ap.hlen # 6 \/
            be16toh(ap.ptype) # arp_type_ip4 \/ ap.plen # 4
    THEN [tree |-> t, ret |-> 0, sent |-> <<>>]
    ELSE IF be16toh(ap.oper) = arp_oper_who_has
    THEN arp_who_has(t, ap, arp_when(ts), dst, mem, txok)
    ELSE IF be16toh(ap.oper) = arp_oper_is_at
    THEN arp_is_at(t, ap, arp_when(ts), mem)
    ELSE [tree |-> t, ret |-> 0, sent |-> <<>>]

-----------------------------------------------------------------------------
(* The aggregator as a state machine *)

MaxAggCalls == 3

\* how many calloc() calls succeed in an insert that runs out of memory
MemBudgets == {0, 3, 9}

\* the ranges offered to insert, first <= last: disjoint, overlapping,
\* nested, and whole subnets
Ranges ==
    { <<IP(10,0,0,0), IP(10,0,0,7)>>,
      <<IP(10,0,0,8), IP(10,0,0,15)>>,
      <<IP(10,0,0,4), IP(10,0,0,11)>>,
      <<IP(10,0,0,1), IP(10,0,0,1)>>,
      <<IP(0,0,0,0), IP(0,0,0,255)>>,
      <<IP(0,0,0,0), IP(7,255,255,255)>> }

\* the ranges offered to an insert that runs out of memory
NoMemRanges ==
    { <<IP(10,0,0,0), IP(10,0,0,7)>>,
      <<IP(10,0,0,1), IP(10,0,0,1)>>,
      <<IP(0,0,0,0), IP(7,255,255,255)>> }

\* the ranges offered to remove
RemoveRanges == { <<IP(10,0,0,0), IP(10,0,0,7)>>, <<IP(0,0,0,0), IP(0,0,0,255)>> }

\* the addresses lookup is asked about
Probes ==
    UNION { {r[1], r[2]} \cup
            (IF r[1] # Zero32 THEN {Trunc32(WSub(Ext64(r[1]), One64))} ELSE {}) \cup
            (IF r[2] # Ones32 THEN {Trunc32(WAdd(Ext64(r[2]), One64))} ELSE {})
          : r \in Ranges }
    \cup {IP(10,0,0,3), IP(10,0,0,5), IP(10,0,0,9), IP(8,0,0,0),
          IP(15,255,255,255), IP(255,255,255,255)}

AggStart ==
    /\ ip4a = [root |-> ip4a_new, ret |-> 0]
    /\ agg_op = [kind |-> "new", first |-> Zero32, last |-> Zero32]
    /\ agg_ranges = {}
    /\ agg_failed = FALSE
    /\ agg_calls = 0

\* the root and the return value a call leaves behind
AggResult(res) == [root |-> res.n, ret |-> res.ret]

AggInsertCall(r, mem) ==
    /\ agg_calls < MaxAggCalls
    /\ ip4a' = AggResult(ip4a_insert(ip4a.root, r[1], r[2], mem))
    /\ agg_op' = [kind |-> "insert", first |-> r[1], last |-> r[2]]
    /\ agg_ranges' = IF ip4a'.ret = 0 THEN agg_ranges \cup {r} ELSE agg_ranges
    /\ agg_failed' = (agg_failed \/ ip4a'.ret # 0)
    /\ agg_calls' = agg_calls + 1

\* insert with every allocation succeeding
AggInsert == \E r \in Ranges : AggInsertCall(r, -1)

\* insert with calloc failing after mem allocations
AggInsertNoMem ==
    /\ ~agg_failed
    /\ \E r \in NoMemRanges : \E mem \in MemBudgets : AggInsertCall(r, mem)

AggRemove ==
    \E r \in RemoveRanges :
      /\ agg_calls < MaxAggCalls
      /\ ip4a' = AggResult(ip4a_remove(ip4a.root, r[1], r[2]))
      /\ agg_op' = [kind |-> "remove", first |-> r[1], last |-> r[2]]
      /\ agg_calls' = agg_calls + 1
      /\ UNCHANGED <<agg_ranges, agg_failed>>

-----------------------------------------------------------------------------
(* The tracker and the analyzer as a state machine *)

\* the most requests a record counts before the model stops asking
MaxNreq == 4

\* the number of packets and direct calls of a behaviour
MaxArpCalls == 2

\* the number of requests and reservations of a behaviour of requests
MaxProbeCalls == 5

\* the number of requests, replies and registrations of a behaviour of
\* registrations
MaxRestartCalls == 4

\* the number of requests, replies and reservations of a behaviour that
\* sets the flags of a record and goes on
MaxFlagCalls == 5

IpA == <<10, 0, 0, 1>>

IpB == <<10, 0, 0, 2>>

IPs == {IpA, IpB}

MacA == <<2, 0, 0, 0, 0, 1>>

MacB == <<2, 0, 0, 0, 0, 2>>

MACs == {MacA, MacB}

\* the hardware address a station sends from
MacOf(ip) == IF ip = IpA THEN MacA ELSE MacB

\* no scope set, or one that holds IpA and not IpB
DstSets ==
    { [null |-> TRUE, addrs |-> {}], [null |-> FALSE, addrs |-> {be32toh(IpA)}] }

\* the capture times, <<tv_sec, tv_usec>>
Timevals == { <<0, 0>>, <<1, 0>>, <<3, 0>>, <<3, 500999>>, <<31, 0>> }

\* how many calloc() calls succeed in a call that runs out of memory
ArpMemBudgets == {0, 3, 8}

WhoHasPkt(spa, sha, tpa) ==
    [len |-> arp_pkt_size, htype |-> <<0, 1>>, ptype |-> <<8, 0>>,
     hlen |-> 6, plen |-> 4, oper |-> <<0, 1>>,
     sha |-> sha, spa |-> spa, tha |-> EtherZero, tpa |-> tpa]

IsAtPkt(spa, sha, tpa, tha) ==
    [len |-> arp_pkt_size, htype |-> <<0, 1>>, ptype |-> <<8, 0>>,
     hlen |-> 6, plen |-> 4, oper |-> <<0, 2>>,
     sha |-> sha, spa |-> spa, tha |-> tha, tpa |-> tpa]

\* a request from each station for each address, its own included (a probe)
WhoHasPkts == {WhoHasPkt(spa, MacOf(spa), tpa) : spa \in IPs, tpa \in IPs}

\* a reply from IpA to IpB, and an announcement by IpB from another
\* hardware address
IsAtPkts == {IsAtPkt(IpA, MacA, IpB, MacB), IsAtPkt(IpB, MacA, IpB, EtherZero)}

\* packets that fail the analyzer's validation: too short, another hardware
\* type, a byte-swapped hardware type, another protocol address length,
\* another operation
BadPkts ==
    LET q == WhoHasPkt(IpB, MacB, IpA)
        r == IsAtPkt(IpA, MacA, IpB, MacB)
    IN  { [q EXCEPT !.len = arp_pkt_size - 1],
          [r EXCEPT !.len = 0],
          [q EXCEPT !.htype = <<0, 6>>],
          [r EXCEPT !.htype = <<1, 0>>],
          [q EXCEPT !.ptype = <<134, 221>>],
          [r EXCEPT !.plen = 16],
          [q EXCEPT !.oper = <<0, 3>>] }

\* the request times, in ms, of two scenarios: requests that lead to a claim
\* and one more, and a request followed by one after the stale gap
Scenarios == { <<0, 1000, 3000, 3500, 31000>>, <<0, 31000>> }

\* s is the beginning of a scenario
IsScenarioPrefix(s) ==
    {sc \in Scenarios : Len(s) <= Len(sc) /\ SubSeq(sc, 1, Len(s)) = s} # {}

ScriptOff == <<-1>>

\* no request for the address since it was last registered
NoWindow == [n |-> 0, t0 |-> 0, tl |-> 0]

ArpStart(d) ==
    /\ arp = [tree |-> arp_root, ret |-> 0, sent |-> <<>>]
    /\ dst_set = d
    /\ now = <<0, 0>>
    /\ arp_op = [kind |-> "start"]
    /\ registered = {}
    /\ script = [ip \in IPs |-> <<>>]
    /\ window = [ip \in IPs |-> NoWindow]
    /\ arp_calls = 0

\* the /32 node of ip, NULL when there is none
ArpNode(t, ip) == arp_descend(t, <<>>, arp_lookup_path(ip))

\* whether packet_analyze_arp gets as far as the second switch with ap
ArpValid(ap) ==
    /\ ap.len >= arp_pkt_size
    /\ be16toh(ap.htype) = arp_type_ether /\ ap.hlen = 6
    /\ be16toh(ap.ptype) = arp_type_ip4 /\ ap.plen = 4
    /\ be16toh(ap.oper) \in {arp_oper_who_has, arp_oper_is_at}

ArpIsWhoHas(ap) == ArpValid(ap) /\ be16toh(ap.oper) = arp_oper_who_has

ArpIsIsAt(ap) == ArpValid(ap) /\ be16toh(ap.oper) = arp_oper_is_at

ArpInScope(ip) == dst_set.null \/ ip4s_lookup(dst_set, be32toh(ip))

\* the addresses the analyzer passes to arp_register for packet ap
ArpRegisters(ap) ==
    IF ArpIsWhoHas(ap) /\ ArpInScope(ap.tpa) THEN {ap.spa}
    ELSE IF ArpIsIsAt(ap) THEN {ap.spa, ap.tpa}
    ELSE {}

\* the script of ip after packet ap at time when: the times of the requests
\* for ip so far, as long as they are the beginning of a scenario, each came
\* from another address and was handled, and nothing else touched ip's
\* record
ScriptAfter(ip, ap, when, res) ==
    IF ip \in ArpRegisters(ap) THEN ScriptOff
    ELSE IF ArpIsWhoHas(ap) /\ ap.tpa = ip /\ ArpInScope(ip)
    THEN IF script[ip] # ScriptOff /\ (res.ret = 0 \/ res.sent # <<>>) /\
            IsScenarioPrefix(Append(script[ip], when))
         THEN Append(script[ip], when)
         ELSE ScriptOff
    ELSE script[ip]

\* an address that is reserved or claimed has no window; p is the path of
\* the address's node
WindowClosed(t, p) == p \in DOMAIN t /\ (t[p].reserved \/ t[p].claimed)

\* the window of ip after packet ap at time when.  A window is a run of
\* handled who-has requests for ip in scope, each less than 30000 ms after
\* the one before, with no arp_register of ip in between; n counts its
\* requests, t0 and tl are the times of its first and its last.
WindowAfter(ip, ap, when, res) ==
    IF ap.tpa = ip /\ ArpIsWhoHas(ap) /\ ArpInScope(ip) /\
       (res.ret = 0 \/ res.sent # <<>>)
    THEN IF WindowClosed(res.tree, arp_lookup_path(ip)) THEN NoWindow
         ELSE IF ap.spa = ip \/ window[ip].n = 0 \/
                 when - window[ip].tl >= 30000
         THEN [n |-> 1, t0 |-> when, tl |-> when]
         ELSE [n |-> window[ip].n + 1, t0 |-> window[ip].t0, tl |-> when]
    ELSE IF window[ip].n = 0 THEN NoWindow
    ELSE IF ip \in ArpRegisters(ap) THEN NoWindow
    ELSE window[ip]

\* capture times do not go back
ArpLater(t) == t[1] > now[1] \/ (t[1] = now[1] /\ t[2] >= now[2])

\* packet ap is captured at time t and handed to packet_analyze_arp
ArpPacket(ap, t, mem, txok) ==
    /\ ArpLater(t)
    /\ arp_calls' = arp_calls + 1
    /\ now' = t
    /\ arp' = packet_analyze_arp(arp.tree, ap, t, dst_set, mem, txok)
    /\ arp_op' = [kind |-> "packet", pkt |-> ap]
    /\ registered' = registered \cup ArpRegisters(ap)
    /\ script' = [ip \in IPs |-> ScriptAfter(ip, ap, arp_when(t), arp')]
    /\ window' = [ip \in IPs |-> WindowAfter(ip, ap, arp_when(t), arp')]
    /\ UNCHANGED dst_set

\* the model stops asking for an address whose record has counted MaxNreq
\* requests
ArpMayAsk(ip) ==
    LET an == ArpNode(arp.tree, ip)
    IN  IF an = NULL THEN TRUE ELSE arp.tree[an].nreq < MaxNreq

\* a who-has request arrives
WhoHas ==
    \E ap \in WhoHasPkts : \E t \in Timevals :
        ArpMayAsk(ap.tpa) /\ ArpPacket(ap, t, -1, TRUE)

\* a who-has request arrives and is answered, but ethernet_reply fails
WhoHasTxFail ==
    \E ap \in WhoHasPkts : \E t \in Timevals :
        ArpMayAsk(ap.tpa) /\ ArpPacket(ap, t, -1, FALSE) /\ arp'.sent # <<>>

\* an is-at reply or announcement arrives
IsAt == \E ap \in IsAtPkts : \E t \in Timevals : ArpPacket(ap, t, -1, TRUE)

\* a packet arrives that fails validation (its capture time is not looked at)
Malformed == \E ap \in BadPkts : ArpPacket(ap, now, -1, TRUE)

\* a request or a reply arrives while calloc fails after mem allocations
PacketNoMem ==
    \E ap \in WhoHasPkts \cup IsAtPkts : \E t \in Timevals :
      \E mem \in ArpMemBudgets :
        /\ ArpMayAsk(ap.tpa)
        /\ {ip \in {ap.spa, ap.tpa} : ArpNode(arp.tree, ip) = NULL} # {}
        /\ ArpPacket(ap, t, mem, TRUE)
        /\ arp'.tree # packet_analyze_arp(arp.tree, ap, t, dst_set, -1, TRUE).tree

\* arp_register(ip, mac, when) called directly; had is what arp_lookup(ip)
\* gave before the call
Register ==
    \E ip \in IPs : \E mac \in MACs : \E mem \in {-1, 0} :
      LET r == arp_register(arp.tree, ip, mac, arp_when(now), mem)
      IN  /\ mem = 0 => ArpNode(arp.tree, ip) = NULL
          /\ arp_calls' = arp_calls + 1
          /\ arp' = [tree |-> r.t, ret |-> r.ret, sent |-> <<>>]
          /\ arp_op' = [kind |-> "register", ip |-> ip, mac |-> mac,
                        had |-> arp_lookup(arp.tree, ip)]
          /\ registered' = registered \cup {ip}
          /\ script' = [script EXCEPT ![ip] = ScriptOff]
          /\ window' = [window EXCEPT ![ip] = NoWindow]
          /\ UNCHANGED <<dst_set, now>>

\* arp_reserve(ip)
Reserve ==
    \E ip \in IPs : \E mem \in {-1, 0} :
      LET r == arp_reserve(arp.tree, ip, mem)
      IN  /\ mem = 0 => ArpNode(arp.tree, ip) = NULL
          /\ arp_calls' = arp_calls + 1
          /\ arp' = [tree |-> r.t, ret |-> r.ret, sent |-> <<>>]
          /\ arp_op' = [kind |-> "reserve", ip |-> ip]
          /\ script' = [script EXCEPT ![ip] = ScriptOff]
          /\ window' = [window EXCEPT ![ip] =
                          IF WindowClosed(r.t, arp_lookup_path(ip))
                          THEN NoWindow ELSE @]
          /\ UNCHANGED <<dst_set, now, registered>>

NextAgg == (AggInsert \/ AggInsertNoMem \/ AggRemove) /\ UNCHANGED arp_vars

InitAgg == AggStart /\ ArpStart([null |-> TRUE, addrs |-> {}])

SpecAgg == InitAgg /\ [][NextAgg]_vars

InitArp == AggStart /\ \E d \in DstSets : ArpStart(d)

\* every call of the tracker and every kind of packet, a few steps deep
NextArp ==
    /\ arp_calls < MaxArpCalls
    /\ WhoHas \/ WhoHasTxFail \/ IsAt \/ Malformed \/ PacketNoMem \/ Register
          \/ Reserve
    /\ UNCHANGED agg_vars

SpecArp == InitArp /\ [][NextArp]_vars

\* requests and reservations only, long enough for an address to be
\* claimed and asked for again
NextProbe ==
    /\ arp_calls < MaxProbeCalls
    /\ WhoHas \/ WhoHasTxFail \/ Reserve
    /\ UNCHANGED agg_vars

SpecProbe == InitArp /\ [][NextProbe]_vars

\* requests, replies and registrations only
NextRestart ==
    /\ arp_calls < MaxRestartCalls
    /\ WhoHas \/ IsAt \/ Register
    /\ UNCHANGED agg_vars

SpecRestart == InitArp /\ [][NextRestart]_vars

\* requests, replies and reservations with the scope set {IpA}
InitFlags == AggStart /\ ArpStart([null |-> FALSE, addrs |-> {be32toh(IpA)}])

NextFlags ==
    /\ arp_calls < MaxFlagCalls
    /\ WhoHas \/ IsAt \/ Reserve
    /\ UNCHANGED agg_vars

SpecFlags == InitFlags /\ [][NextFlags]_vars

-----------------------------------------------------------------------------
(* Reference semantics of the set of inserted ranges *)

InRanges(S, a) == \E r \in S : WLe(r[1], a) /\ WLe(a, r[2])

\* where the union of S can start or stop, as 64-bit numbers
Breaks(S) ==
    {Ext64(r[1]) : r \in S} \cup {WAdd(Ext64(r[2]), One64) : r \in S}

WMin(pts) == CHOOSE y \in pts : \A z \in pts : WLe(y, z)

RECURSIVE SumSegments(_, _)
SumSegments(S, pts) ==
    IF pts = {} THEN Zero64
    ELSE LET x    == WMin(pts)
             rest == pts \ {x}
             nxt  == IF rest = {} THEN x ELSE WMin(rest)
         IN  WAdd(IF x[1] = 0 /\ x[2] = 0 /\ InRanges(S, Trunc32(x))
                  THEN WSub(nxt, x) ELSE Zero64,
                  SumSegments(S, rest))

\* the number of distinct addresses in the union of the ranges of S
UnionSize(S) == SumSegments(S, Breaks(S))

-----------------------------------------------------------------------------
(* Claims about the aggregator, checked under SpecAgg *)

\* C1: with the default tunables and no allocation failure, lookup(a) is
\* true exactly for the addresses a that lie in some inserted range.
C1_LookupIffInserted ==
    ~agg_failed =>
        \A a \in Probes :
            (ip4a_lookup(ip4a.root, a) = 1) <=> InRanges(agg_ranges, a)

\* C2: after successful inserts, count() is the number of distinct addresses
\* in the union of the inserted ranges.
C2_CountIsUnionSize ==
    ~agg_failed => ip4a_count(ip4a.root) = UnionSize(agg_ranges)

\* C3: inserting a range a second time, immediately after inserting it once,
\* leaves count() and the ordered dump of leaves as they were.
C3_InsertIdempotent ==
    [][ ( /\ agg_op.kind = "insert" /\ agg_op'.kind = "insert"
          /\ agg_calls' = agg_calls + 1
          /\ agg_op'.first = agg_op.first /\ agg_op'.last = agg_op.last
          /\ ~agg_failed' )
        => ( /\ ip4a_count(ip4a'.root) = ip4a_count(ip4a.root)
             /\ ip4a_fprint(ip4a'.root) = ip4a_fprint(ip4a.root) ) ]_vars


-----------------------------------------------------------------------------
(* Claims about the tracker and the analyzer *)

\* whether address ip has a /32 node in tracker state a, and the node
ArpHas(a, ip) == ArpNode(a.tree, ip) # NULL

ArpRec(a, ip) == a.tree[ArpNode(a.tree, ip)]

\* the last call was the analysis of a who-has request for ip
LastAsk(ip) ==
    /\ arp_op.kind = "packet"
    /\ ArpIsWhoHas(arp_op.pkt)
    /\ arp_op.pkt.tpa = ip

\* this step is the analysis of a who-has request for ip
AskStep(ip) ==
    /\ arp_calls' = arp_calls + 1
    /\ arp_op'.kind = "packet"
    /\ ArpIsWhoHas(arp_op'.pkt)
    /\ arp_op'.pkt.tpa = ip

\* C4, as the code has it: for an address in scope that was never seen,
\* requests from another address at 0, 1000 and 3000 ms are not answered
\* and leave the address unclaimed, with the count at 1, 2 and 3; the fourth
\* request, at 3500 ms, claims the address and is answered exactly once.
C4_ClaimOnFourth ==
    \A ip \in IPs :
        LastAsk(ip) =>
            /\ script[ip] \in {<<0>>, <<0, 1000>>, <<0, 1000, 3000>>} =>
                  /\ arp.sent = <<>>
                  /\ ~ArpRec(arp, ip).claimed
                  /\ ArpRec(arp, ip).nreq = Len(script[ip])
            /\ script[ip] = <<0, 1000, 3000, 3500>> =>
                  /\ ArpRec(arp, ip).claimed
                  /\ Len(arp.sent) = 1
                  /\ arp.sent[1].spa = ip

\* C4 as the specification states it: the first two requests are not
\* answered, the third, at 3000 ms, claims the address and is answered
\* exactly once, and the fourth is answered once and leaves it claimed.
C4_ClaimOnThird ==
    \A ip \in IPs :
        LastAsk(ip) =>
            /\ script[ip] \in {<<0>>, <<0, 1000>>} => arp.sent = <<>>
            /\ script[ip] = <<0, 1000, 3000>> =>
                  ArpRec(arp, ip).claimed /\ Len(arp.sent) = 1
            /\ script[ip] = <<0, 1000, 3000, 3500>> =>
                  ArpRec(arp, ip).claimed /\ Len(arp.sent) = 1

\* the fourth request of the scenario has been analysed
C4_Witness ==
    \E ip \in IPs :
        /\ LastAsk(ip)
        /\ script[ip] = <<0, 1000, 3000, 3500>>
        /\ ArpRec(arp, ip).claimed
        /\ arp.sent # <<>>

\* C5: once an address is reserved, no call changes its claimed flag from
\* false to true, no call hands ethernet_reply a reply for it, and every
\* who-has request for it leaves its count at 0.
C5_ReservedPrecedence ==
    [][ \A ip \in IPs :
          (arp_calls' = arp_calls + 1 /\ ArpHas(arp, ip) /\ ArpRec(arp, ip).reserved)
          => /\ ArpHas(arp', ip)
             /\ ArpRec(arp', ip).reserved
             /\ ~ArpRec(arp, ip).claimed => ~ArpRec(arp', ip).claimed
             /\ \A i \in DOMAIN arp'.sent : arp'.sent[i].spa # ip
             /\ AskStep(ip) => ArpRec(arp', ip).nreq = 0 ]_vars

\* a request for a reserved address that had been asked for before it was
\* reserved has been analysed
C5_Witness ==
    \E ip \in IPs :
        /\ LastAsk(ip)
        /\ ArpInScope(ip)
        /\ ArpRec(arp, ip).reserved
        /\ ArpRec(arp, ip).first = 1000
        /\ ArpRec(arp, ip).nreq = 0

\* C6 for requests in scope: a who-has request for an address in scope whose
\* record is neither claimed nor reserved, at least 30000 ms after the
\* record's last, starts a new window (count 1, first = last = when), does
\* not claim and is not answered, whatever the count was.
C6_StaleReset ==
    [][ \A ip \in IPs :
          ( /\ AskStep(ip)
            /\ ArpInScope(ip)
            /\ ArpHas(arp, ip)
            /\ ~ArpRec(arp, ip).claimed
            /\ ~ArpRec(arp, ip).reserved
            /\ arp_when(now') - ArpRec(arp, ip).last >= arp_stale_ms )
          => /\ ArpRec(arp', ip).nreq = 1
             /\ ArpRec(arp', ip).first = arp_when(now')
             /\ ArpRec(arp', ip).last = arp_when(now')
             /\ ~ArpRec(arp', ip).claimed
             /\ arp'.sent = <<>> ]_vars

\* C6 as the specification states it, for every who-has request
C6_StaleResetAnyScope ==
    [][ \A ip \in IPs :
          ( /\ AskStep(ip)
            /\ ArpHas(arp, ip)
            /\ ~ArpRec(arp, ip).claimed
            /\ ~ArpRec(arp, ip).reserved
            /\ arp_when(now') - ArpRec(arp, ip).last >= arp_stale_ms )
          => /\ ArpRec(arp', ip).nreq = 1
             /\ ArpRec(arp', ip).first = arp_when(now')
             /\ ArpRec(arp', ip).last = arp_when(now')
             /\ ~ArpRec(arp', ip).claimed
             /\ arp'.sent = <<>> ]_vars

\* requests at 0 and 31000 ms have been analysed
C6_Witness ==
    \E ip \in IPs :
        /\ LastAsk(ip)
        /\ script[ip] = <<0, 31000>>
        /\ ArpRec(arp, ip).nreq = 1
        /\ ArpRec(arp, ip).first = 31000
        /\ ~ArpRec(arp, ip).claimed

\* C7: a who-has request for an address in scope whose record is claimed
\* and not reserved hands ethernet_reply exactly one reply, for that
\* address, sets the count to 0 and last to the request's time, and leaves
\* the address claimed.
C7_ClaimedRefresh ==
    [][ \A ip \in IPs :
          ( /\ AskStep(ip)
            /\ ArpInScope(ip)
            /\ ArpHas(arp, ip)
            /\ ArpRec(arp, ip).claimed
            /\ ~ArpRec(arp, ip).reserved )
          => /\ Len(arp'.sent) = 1
             /\ arp'.sent[1] = arp_reply(arp_op'.pkt)
             /\ arp'.sent[1].spa = ip
             /\ ArpRec(arp', ip).nreq = 0
             /\ ArpRec(arp', ip).last = arp_when(now')
             /\ ArpRec(arp', ip).claimed ]_vars

\* the request after the claiming one, at 31000 ms, has been analysed
C7_Witness ==
    \E ip \in IPs :
        /\ LastAsk(ip)
        /\ script[ip] = <<0, 1000, 3000, 3500, 31000>>
        /\ ArpRec(arp, ip).claimed
        /\ ArpRec(arp, ip).last = 31000
        /\ Len(arp.sent) = 1

\* C8: right after a successful arp_register(ip, mac, when), arp_lookup(ip)
\* returns 0 and sets the address to mac, whatever was stored before.
C8_RegisterLookup ==
    (arp_op.kind = "register" /\ arp.ret = 0)
    => arp_lookup(arp.tree, arp_op.ip) = [ret |-> 0, ether |-> arp_op.mac]

\* an address has been registered that had another address stored
C8_Witness ==
    /\ arp_op.kind = "register"
    /\ arp.ret = 0
    /\ arp_op.had.ret = 0
    /\ arp_op.had.ether \notin {EtherZero, arp_op.mac}
    /\ arp_lookup(arp.tree, arp_op.ip).ether = arp_op.mac

\* C9: arp_lookup(ip) fails for every address that was never passed to
\* arp_register, also when it has a record as the target of a request or
\* as a reserved address.
C9_LookupAbsent ==
    \A ip \in IPs : ip \notin registered => arp_lookup(arp.tree, ip).ret = -1

\* C10: the analysis of a packet that is too short, or of another hardware
\* or protocol type or address length, or of another operation, returns 0,
\* leaves the tree as it is and hands ethernet_reply nothing.
C10_InvalidIsNoOp ==
    [][ ( /\ arp_calls' = arp_calls + 1
          /\ arp_op'.kind = "packet"
          /\ ~ArpValid(arp_op'.pkt) )
        => /\ arp'.ret = 0
           /\ arp'.tree = arp.tree
           /\ arp'.sent = <<>> ]_vars

\* C11: after the analysis of a well-formed who-has request, arp_lookup of
\* the sender's address returns 0 and the sender's hardware address, whether
\* or not the target is in the scope set.
C11_SenderRegistered ==
    (arp_op.kind = "packet" /\ ArpIsWhoHas(arp_op.pkt))
    => arp_lookup(arp.tree, arp_op.pkt.spa)
         = [ret |-> 0, ether |-> arp_op.pkt.sha]

-----------------------------------------------------------------------------
(* The coverage invariant of the aggregator's tree *)

\* the sum of the coverage of the children of n that exist, from child i on
RECURSIVE SubCoverage(_, _)
SubCoverage(n, i) ==
    IF i >= ip4a_fanout THEN Zero64
    ELSE IF i \in DOMAIN n.sub
    THEN WAdd(n.sub[i].coverage, SubCoverage(n, i + 1))
    ELSE SubCoverage(n, i + 1)

\* every node of the tree below and including n
RECURSIVE NodesOf(_)
NodesOf(n) == {n} \cup UNION { NodesOf(n.sub[i]) : i \in DOMAIN n.sub }

\* an internal node counts exactly what its children count
CoverageIsSum(n) == n.leaf \/ n.coverage = SubCoverage(n, 0)

\* a node is marked non-leaf only when a child is attached to it
NonLeafHasChild(n) == n.leaf \/ DOMAIN n.sub # {}

\* a leaf below the root stands for its whole subnet (the root is a leaf
\* only while the set is empty)
LeafIsFull(n) == (n.leaf /\ n.plen > 0) => n.coverage = ip4a_size(n)

FailureInvariant(root) ==
    \A n \in NodesOf(root) :
        CoverageIsSum(n) /\ NonLeafHasChild(n) /\ LeafIsFull(n)

\* C12: when an allocation fails during an insert into a tree that satisfies
\* the coverage invariant, the call returns -1 and the tree it leaves
\* behind still satisfies the invariant: every internal node's coverage is
\* the sum of its children's, every non-leaf node has a child, and every
\* leaf of the dump has the coverage of its whole subnet.
C12_FailureKeepsInvariant ==
    [][(agg_op'.kind = "insert" /\ ip4a'.ret # 0 /\ FailureInvariant(ip4a.root))
       => (ip4a'.ret = -1 /\ FailureInvariant(ip4a'.root))]_vars

-----------------------------------------------------------------------------
(* Coarsening *)

\* the first address after the end of each range of S that lies in [lo, hi]
GapStarts(S, lo, hi) ==
    {lo} \cup { Trunc32(WAdd(Ext64(r[2]), One64)) :
                  r \in { q \in S : WLe(lo, q[2]) /\ WLt(q[2], hi) } }

\* every address of [lo, hi] lies in a range of S: an address of [lo, hi]
\* outside S, if there is one, has a least one, which is lo or follows the
\* end of a range
CoveredBy(S, lo, hi) == \A a \in GapStarts(S, lo, hi) : InRanges(S, a)

\* the aligned subnets the coarsening is checked for, as <<first, plen>>
Subnets ==
    { <<IP(10,0,0,0), 28>>, <<IP(10,0,0,1), 32>>, <<IP(10,0,0,0), 24>>,
      <<IP(0,0,0,0), 24>>, <<IP(0,0,0,0), 16>>, <<IP(0,0,0,0), 8>>,
      <<IP(7,0,0,0), 8>>, <<IP(10,0,0,0), 8>> }

\* the last address of the subnet s
SubnetLast(s) == BitOr32(s[1], Shr32(Ones32, s[2]))

\* the address and the prefix length of a line of the dump
LineAddr(l) == IP(l[1], l[2], l[3], l[4])

LinePlen(l) == IF Len(l) > 4 THEN l[5] ELSE 32

\* the dump has a leaf finer than the subnet s inside s
FinerLeaf(dump, s) ==
    \E k \in DOMAIN dump :
        /\ LinePlen(dump[k]) > s[2]
        /\ WLe(s[1], LineAddr(dump[k]))
        /\ WLe(LineAddr(dump[k]), SubnetLast(s))

\* C13: without allocation failure, when every address of an aligned subnet
\* of prefix length p (a multiple of ip4a_bits between ip4a_minplen and
\* ip4a_maxplen) has been inserted, by one range or by several, the dump
\* has no leaf finer than /p inside that subnet; and inserting
\* [0.0.0.0, 0.0.0.255] alone yields exactly the one leaf 0.0.0.0/24.
C13_Coarsening ==
    ~agg_failed =>
      /\ \A s \in Subnets :
            CoveredBy(agg_ranges, s[1], SubnetLast(s))
            => ~FinerLeaf(ip4a_fprint(ip4a.root), s)
      /\ agg_ranges = { <<IP(0,0,0,0), IP(0,0,0,255)>> }
            => ip4a_fprint(ip4a.root) = << <<0, 0, 0, 0, 24>> >>

\* the subnet 10.0.0.0/28 was filled by two ranges, neither of which covers
\* it, and is dumped as one leaf
C13_Witness ==
    /\ ~agg_failed
    /\ agg_ranges = { <<IP(10,0,0,0), IP(10,0,0,7)>>,
                      <<IP(10,0,0,8), IP(10,0,0,15)>> }
    /\ ip4a_fprint(ip4a.root) = << <<10, 0, 0, 0, 28>> >>

-----------------------------------------------------------------------------
(* Removal *)

\* C14: ip4a_remove never reports success: whatever the tree and the range,
\* it returns -1 and leaves the tree as it was, with the same lookup result
\* for every address, the same count and the same dump.
C14_RemoveFails ==
    [][agg_op'.kind = "remove"
       => /\ ip4a'.ret = -1
          /\ ip4a'.root = ip4a.root
          /\ \A a \in Probes :
                ip4a_lookup(ip4a'.root, a) = ip4a_lookup(ip4a.root, a)
          /\ ip4a_count(ip4a'.root) = ip4a_count(ip4a.root)
          /\ ip4a_fprint(ip4a'.root) = ip4a_fprint(ip4a.root)]_vars

\* a remove of a range that was inserted has failed, and the range is
\* still found
C14_Witness ==
    /\ agg_op.kind = "remove"
    /\ ip4a.ret = -1
    /\ <<agg_op.first, agg_op.last>> \in agg_ranges
    /\ ip4a_lookup(ip4a.root, agg_op.first) = 1

-----------------------------------------------------------------------------
(* Coverage counters after successful inserts *)

\* an internal node counts no more than its subnet holds
CoverageInSubnet(n) == n.leaf \/ WLe(n.coverage, ip4a_size(n))

\* C15: after any sequence of successful inserts, repeated and overlapping
\* ones included, every internal node's coverage is the sum of the coverage
\* of its children and is at most 2^(32 - plen).
C15_CoverageInvariant ==
    ~agg_failed =>
      \A n \in NodesOf(ip4a.root) : CoverageIsSum(n) /\ CoverageInSubnet(n)

-----------------------------------------------------------------------------
(* The step function of an idle or probing address *)

\* what a who-has request at time when does to the record r of its target,
\* r2 being the record afterwards and sent the replies handed to
\* ethernet_reply: the three outcomes, tried in this order
ProbeOutcome(ip, r, r2, when, sent) ==
    IF r.nreq = 0 \/ when - r.last >= 30000
    THEN /\ r2.nreq = 1
         /\ r2.first = when
         /\ r2.last = when
         /\ ~r2.claimed
         /\ sent = <<>>
    ELSE IF r.nreq >= 3 /\ when - r.first >= 3000
    THEN /\ r2.claimed
         /\ r2.nreq = 0
         /\ r2.last = when
         /\ Len(sent) = 1
         /\ sent[1].spa = ip
    ELSE /\ r2.nreq = r.nreq + 1
         /\ r2.last = when
         /\ r2.first = r.first
         /\ ~r2.claimed
         /\ sent = <<>>

\* C16: a who-has request in scope, from another address, for an address
\* whose record is neither reserved nor claimed has exactly one of three
\* outcomes, tried in order: (1) count 0 or 30000 ms since last: count 1,
\* first = last = when, no reply; (2) else count at least 3 and 3000 ms
\* since first: claimed, count 0, last = when, one reply; (3) else count
\* plus one, last = when, first unchanged, no reply.
C16_ProbeStep ==
    [][ \A ip \in IPs :
          ( /\ AskStep(ip)
            /\ arp_op'.pkt.spa # ip
            /\ ArpInScope(ip)
            /\ ArpHas(arp, ip)
            /\ ~ArpRec(arp, ip).reserved
            /\ ~ArpRec(arp, ip).claimed )
          => /\ ArpHas(arp', ip)
             /\ ~ArpRec(arp', ip).reserved
             /\ ProbeOutcome(ip, ArpRec(arp, ip), ArpRec(arp', ip),
                             arp_when(now'), arp'.sent) ]_vars

\* the third outcome has happened: the second request of a window, one
\* second after the first, was counted
C16_Witness ==
    \E ip \in IPs :
        /\ LastAsk(ip)
        /\ arp_op.pkt.spa # ip
        /\ ArpInScope(ip)
        /\ ArpRec(arp, ip).nreq = 2
        /\ ArpRec(arp, ip).first = 0
        /\ ArpRec(arp, ip).last = 1000
        /\ ~ArpRec(arp, ip).claimed
        /\ ~ArpRec(arp, ip).reserved

-----------------------------------------------------------------------------
(* Claim evidence *)

\* this step claims ip
ClaimStep(ip) ==
    /\ ArpHas(arp', ip)
    /\ ArpRec(arp', ip).claimed
    /\ ~(ArpHas(arp, ip) /\ ArpRec(arp, ip).claimed)

\* C17: with capture times that do not go back, an address becomes claimed
\* only on a who-has request for it that was preceded, in its window, by at
\* least 3 who-has requests for it, the first of them at least 3000 ms
\* before, each less than 30000 ms after the one before and the claiming
\* request less than 30000 ms after the last, with no arp_register of the
\* address since the window began; a burst of requests that spans less
\* than 3000 ms never claims.
C17_ClaimEvidence ==
    [][ \A ip \in IPs :
          ClaimStep(ip)
          => /\ AskStep(ip)
             /\ ip \notin ArpRegisters(arp_op'.pkt)
             /\ window[ip].n >= 3
             /\ arp_when(now') - window[ip].t0 >= 3000
             /\ arp_when(now') - window[ip].tl < 30000 ]_vars

\* an address has just been claimed by the fourth request of a window that
\* began 3500 ms before
C17_Witness ==
    \E ip \in IPs :
        /\ LastAsk(ip)
        /\ ArpHas(arp, ip)
        /\ ArpRec(arp, ip).claimed
        /\ ArpRec(arp, ip).first = 0
        /\ ArpRec(arp, ip).last = 3500
        /\ Len(arp.sent) = 1
        /\ ip \notin registered

-----------------------------------------------------------------------------
(* The dump and lookup *)

\* address a lies in the subnet of a line of the dump
InDump(dump, a) ==
    \E k \in DOMAIN dump :
        /\ WLe(LineAddr(dump[k]), a)
        /\ WLe(a, BitOr32(LineAddr(dump[k]), Shr32(Ones32, LinePlen(dump[k]))))

\* C18: in every tree reached from ip4a_new by successful inserts, the empty
\* tree included, the addresses covered by the lines of the dump are the
\* addresses for which lookup returns 1; the dump of an empty set has no
\* line that covers an address.
C18_DumpIsLookup ==
    ~agg_failed =>
      \A a \in Probes :
          InDump(ip4a_fprint(ip4a.root), a) <=> ip4a_lookup(ip4a.root, a) = 1

-----------------------------------------------------------------------------
(* Registration restarts probing *)

\* this step is a call of arp_register for ip that returned 0, directly or
\* for an is-at packet that names ip as sender or target
RegisterStep(ip) ==
    /\ arp_calls' = arp_calls + 1
    /\ \/ arp_op'.kind = "register" /\ arp_op'.ip = ip /\ arp'.ret = 0
       \/ /\ arp_op'.kind = "packet"
          /\ ArpIsIsAt(arp_op'.pkt)
          /\ ip \in {arp_op'.pkt.spa, arp_op'.pkt.tpa}
          /\ ArpHas(arp', ip)

\* ip was registered, is neither claimed nor reserved, and no request for
\* it has been counted since
FreshlyRegistered(ip) ==
    /\ ip \in registered
    /\ window[ip].n = 0
    /\ ArpHas(arp, ip)
    /\ ~ArpRec(arp, ip).claimed
    /\ ~ArpRec(arp, ip).reserved

\* the request of this step started a new window for ip
NewWindow(ip) ==
    /\ ArpRec(arp', ip).nreq = 1
    /\ ArpRec(arp', ip).first = arp_when(now')
    /\ ArpRec(arp', ip).last = arp_when(now')
    /\ ~ArpRec(arp', ip).claimed
    /\ arp'.sent = <<>>

\* C19 for requests in scope: every arp_register of ip that returns 0 sets
\* ip's count to 0 whether or not the stored address changed, so the next
\* who-has request in scope for ip, if ip is neither claimed nor reserved,
\* starts a new window (count 1, no claim, no reply); a who-has request
\* whose sender is its target never claims the address; an is-at packet
\* naming ip as sender or target sets ip's count to 0.
C19_RegisterRestarts ==
    [][ \A ip \in IPs :
          /\ RegisterStep(ip) => ArpRec(arp', ip).nreq = 0
          /\ (AskStep(ip) /\ ArpInScope(ip) /\ FreshlyRegistered(ip))
                => NewWindow(ip)
          /\ (AskStep(ip) /\ arp_op'.pkt.spa = ip) => ~ClaimStep(ip) ]_vars

\* C19 as the specification states it, for every who-has request
C19_RegisterRestartsAnyScope ==
    [][ \A ip \in IPs :
          /\ RegisterStep(ip) => ArpRec(arp', ip).nreq = 0
          /\ (AskStep(ip) /\ FreshlyRegistered(ip)) => NewWindow(ip)
          /\ (AskStep(ip) /\ arp_op'.pkt.spa = ip) => ~ClaimStep(ip) ]_vars

\* the fourth call, a request at 3000 ms from another address for an
\* address that has been registered, has started a new window
C19_Witness ==
    \E ip \in IPs :
        /\ LastAsk(ip)
        /\ arp_op.pkt.spa # ip
        /\ arp_calls = 4
        /\ ip \in registered
        /\ ArpHas(arp, ip)
        /\ ArpRec(arp, ip).ether # EtherZero
        /\ ArpRec(arp, ip).nreq = 1
        /\ ArpRec(arp, ip).first = arp_when(now)
        /\ arp_when(now) = 3000
        /\ ~ArpRec(arp, ip).claimed
        /\ arp.sent = <<>>

-----------------------------------------------------------------------------
(* No false negatives *)

\* C20: without allocation failure, once an insert of [first, last] with
\* first <= last has returned 0, lookup returns 1 for every address of the
\* range, and goes on doing so after any further inserts, whatever the
\* coverage counters on the way to the address have become.
C20_NoFalseNegative ==
    ~agg_failed =>
      \A a \in Probes :
          InRanges(agg_ranges, a) => ip4a_lookup(ip4a.root, a) = 1

\* 10.0.0.1 was inserted, further inserts have made the root's counter
\* differ from the number of addresses inserted, and 10.0.0.1 is still found
C20_Witness ==
    /\ ~agg_failed
    /\ agg_calls = MaxAggCalls
    /\ <<IP(10,0,0,1), IP(10,0,0,1)>> \in agg_ranges
    /\ ip4a_count(ip4a.root) # UnionSize(agg_ranges)
    /\ ip4a_lookup(ip4a.root, IP(10,0,0,1)) = 1

-----------------------------------------------------------------------------
(* The flags of a record *)

\* C21: the claimed and the reserved flag of a record are monotone: no
\* call (a who-has request, with the arp_register of its sender, an is-at
\* packet, with the arp_register of the addresses it names, or arp_reserve)
\* removes a node of the tracker or sets a flag of it back to false.
C21_FlagsMonotone ==
    [][ \A p \in DOMAIN arp.tree :
          /\ p \in DOMAIN arp'.tree
          /\ arp.tree[p].claimed => arp'.tree[p].claimed
          /\ arp.tree[p].reserved => arp'.tree[p].reserved ]_vars

\* an is-at packet sent by a claimed address has been analysed: the record
\* holds the sender's hardware address and is still claimed
C21_Witness ==
    \E ip \in IPs :
        /\ arp_op.kind = "packet"
        /\ ArpIsIsAt(arp_op.pkt)
        /\ arp_op.pkt.spa = ip
        /\ ArpHas(arp, ip)
        /\ ArpRec(arp, ip).claimed
        /\ ArpRec(arp, ip).ether = arp_op.pkt.sha
        /\ ArpRec(arp, ip).ether # EtherZero

=============================================================================
